---- MODULE Spec2Model ----
(***************************************************************************)
(* Model of generate_rss.py (TheBrandIdentityRSS): one synchronous run     *)
(* fetch_articles -> generate_rss -> save_rss -> save_metadata -> exit.    *)
(*                                                                         *)
(* Text is a sequence of one-character strings.  A parsed document is the  *)
(* pre-order (document order) sequence of its elements; element i carries  *)
(* `last`, the index of its last descendant, so its descendants are        *)
(* i+1 .. last.  An attribute is a set: {} when absent, {value} when set.  *)
(***************************************************************************)
EXTENDS Integers, Sequences, FiniteSets, TLC

\* ---- bounds of the model ----
\* elements in an exhaustively enumerated page
MaxNodes ==
    3
\* candidate blocks in a long page (more than the 20 the loop keeps)
MaxRun ==
    21

\* ---- program constants ----
\* article_elements[:20]
MaxArticles ==
    20
\* len(title) < 10
MinTitleLen ==
    10

\* self.base_url
BaseUrl ==
    <<"h", "t", "t", "p", "s", ":", "/", "/", "t", "h", "e", "-", "b", "r", "a", "n", "d", "i", "d", "e", "n", "t", "i", "t", "y", ".", "c", "o", "m">>

\* ---- text helpers ----
Lowers ==
    <<"a", "b", "c", "d", "e", "f", "g", "h", "i", "j", "k", "l", "m", "n", "o", "p", "q", "r", "s", "t", "u", "v", "w", "x", "y", "z">>
Uppers ==
    <<"A", "B", "C", "D", "E", "F", "G", "H", "I", "J", "K", "L", "M", "N", "O", "P", "Q", "R", "S", "T", "U", "V", "W", "X", "Y", "Z">>

\* str.lower() on one character
LowerChar(c) ==
    IF \E i \in 1..Len(Uppers) : Uppers[i] = c
    THEN Lowers[CHOOSE i \in 1..Len(Uppers) : Uppers[i] = c]
    ELSE c

\* str.lower()
Lower(s) ==
    [i \in 1..Len(s) |-> LowerChar(s[i])]

\* w occurs in s as a substring
Contains(s, w) ==
    \E i \in 1..(Len(s) - Len(w) + 1) : SubSeq(s, i, i + Len(w) - 1) = w

StartsWith(s, w) ==
    Len(s) >= Len(w) /\ SubSeq(s, 1, Len(w)) = w

\* characters str.strip() removes
Whitespace ==
    {" ", "\n", "\t"}

\* str.strip()
Strip(s) ==
    IF \A i \in 1..Len(s) : s[i] \in Whitespace THEN << >>
    ELSE SubSeq(s, CHOOSE i \in 1..Len(s) : /\ s[i] \notin Whitespace
                                            /\ \A j \in 1..(i - 1) : s[j] \in Whitespace,
                   CHOOSE i \in 1..Len(s) : /\ s[i] \notin Whitespace
                                            /\ \A j \in (i + 1)..Len(s) : s[j] \in Whitespace)

\* ---- the regular expressions of the scraper ----
ArticleWords ==
    { <<"p", "o", "s", "t">>, <<"a", "r", "t", "i", "c", "l", "e">>, <<"i", "t", "e", "m">>,
      <<"c", "a", "r", "d">>, <<"e", "n", "t", "r", "y">> }

ExcerptWords ==
    { <<"e", "x", "c", "e", "r", "p", "t">>, <<"d", "e", "s", "c", "r", "i", "p", "t", "i", "o", "n">>,
      <<"s", "u", "m", "m", "a", "r", "y">> }

\* re.compile(r'(post|article|item|card|entry)').search(s), as if compiled with re.I
ArticleClassRegexIgnoreCase(s) ==
    \E w \in ArticleWords : Contains(Lower(s), w)

\* re.compile(r'(post|article|item|card|entry)').search(s)
ArticleClassRegex(s) ==
    \E w \in ArticleWords : Contains(s, w)

\* re.compile(r'(excerpt|description|summary)').search(s)
ExcerptClassRegex(s) ==
    \E w \in ExcerptWords : Contains(s, w)

\* re.compile(r'/[^/]+/?$').search(s): a slash, one or more non-slash characters,
\* an optional slash, then the end of the string (or the newline that ends it)
LinkHrefRegex(s) ==
    \E e \in {Len(s)} \cup (IF Len(s) > 0 /\ s[Len(s)] = "\n" THEN {Len(s) - 1} ELSE {}) :
        \E i \in 1..e : \E j \in (i + 1)..e :
           /\ s[i] = "/"
           /\ \A k \in (i + 1)..j : s[k] # "/"
           /\ \/ j = e
              \/ j + 1 = e /\ s[e] = "/"

\* the least member of a set of numbers
Min(S) ==
    CHOOSE x \in S : \A y \in S : x <= y

\* ---- urllib.parse.urljoin ----
Letters ==
    {Lowers[i] : i \in 1..Len(Lowers)} \cup {Uppers[i] : i \in 1..Len(Uppers)}

SchemeChars ==
    Letters \cup {"0", "1", "2", "3", "4", "5", "6", "7", "8", "9", "+", "-", "."}

\* the position of the first ":" of u, 0 when there is none
FirstColon(u) ==
    IF \E i \in 1..Len(u) : u[i] = ":"
    THEN Min({i \in 1..Len(u) : u[i] = ":"})
    ELSE 0

\* urlsplit: the length of the scheme that ends at colon i, 0 when that is no scheme
SchemeLenAt(u, i) ==
    IF i > 1 /\ u[1] \in Letters /\ \A k \in 1..(i - 1) : u[k] \in SchemeChars
    THEN i - 1 ELSE 0

\* urlsplit: length of the scheme of u, 0 when u has none
SchemeLen(u) ==
    SchemeLenAt(u, FirstColon(u))

\* urlsplit: u after its scheme of length n and the colon
UrlRest(u, n) ==
    IF n > 0 THEN SubSeq(u, n + 2, Len(u)) ELSE u

\* urlsplit: where the network location of a reference that starts with "//" ends
NetlocEnd(rest) ==
    IF \E i \in 3..Len(rest) : rest[i] \in {"/", "?", "#"}
    THEN Min({i \in 3..Len(rest) : rest[i] \in {"/", "?", "#"}})
    ELSE Len(rest) + 1

Netloc(rest) ==
    SubSeq(rest, 3, NetlocEnd(rest) - 1)

\* one bracket of an IPv6 literal without the other
Unbalanced(loc) ==
    (\E i \in 1..Len(loc) : loc[i] = "[") # (\E i \in 1..Len(loc) : loc[i] = "]")

\* urlsplit raises ValueError("Invalid IPv6 URL") on an unbalanced bracket in the netloc
UrlsplitRaises(u) ==
    /\ StartsWith(UrlRest(u, SchemeLen(u)), <<"/", "/">>)
    /\ Unbalanced(Netloc(UrlRest(u, SchemeLen(u))))

\* urljoin once the reference is split into its lower-cased scheme and the rest;
\* bsch is the scheme of the base
JoinParts(base, u, scheme, rest, bsch) ==
    IF scheme # << >> /\ scheme # bsch THEN [raised |-> FALSE, val |-> u]
    ELSE IF StartsWith(rest, <<"/", "/">>)
         THEN [raised |-> FALSE, val |-> bsch \o <<":">> \o rest]
    ELSE IF StartsWith(rest, <<"/">>)
         THEN [raised |-> FALSE, val |-> base \o rest]
    ELSE IF rest = << >> THEN [raised |-> FALSE, val |-> base]
    ELSE [raised |-> FALSE, val |-> base \o <<"/">> \o rest]

\* urljoin(base, u) for a base without path and references without query, fragment
\* or dot segments: [raised |-> ValueError?, val |-> the absolute url]
urljoin(base, u) ==
    IF u = << >> THEN [raised |-> FALSE, val |-> base]
    ELSE IF UrlsplitRaises(u) THEN [raised |-> TRUE, val |-> << >>]
    ELSE JoinParts(base, u, Lower(SubSeq(u, 1, SchemeLen(u))), UrlRest(u, SchemeLen(u)),
                   SubSeq(base, 1, SchemeLen(base)))

\* ---- the parsed document (BeautifulSoup) ----
\* element.find(...) searches the descendants of element e
Descendants(d, e) ==
    (e + 1)..d[e].last

\* the first, in document order, of the elements m; 0 when there is none (None)
Find(m) ==
    IF m = {} THEN 0 ELSE Min(m)

\* the members of a set of indices, in increasing order
RECURSIVE Ascending(_)
Ascending(S) ==
    IF S = {} THEN << >> ELSE <<Min(S)>> \o Ascending(S \ {Min(S)})

\* soup.find_all(...): the matching elements m of the document, in document order
FindAll(m) ==
    Ascending(m)

\* element.get_text(strip=True): the stripped strings of the element and of its
\* descendants, in document order, joined without separator
RECURSIVE GetTextFrom(_, _, _)
GetTextFrom(d, i, hi) ==
    IF i > hi THEN << >> ELSE Strip(d[i].text) \o GetTextFrom(d, i + 1, hi)

GetText(d, e) ==
    GetTextFrom(d, e, d[e].last)

\* an attribute value that Python treats as true: present and not the empty string
Truthy(attr) ==
    attr # {} /\ attr # {<< >>}

AttrVal(attr) ==
    CHOOSE v \in attr : TRUE

\* ---- extract_article_data ----
TitleTags ==
    {"h1", "h2", "h3", "h4", "a"}

IsTitleElem(n) ==
    n.tag \in TitleTags

IsAnchor(n) ==
    n.tag = "a"

IsAnchorWithHref(n) ==
    n.tag = "a" /\ n.href # {}

IsExcerptElem(n) ==
    n.tag \in {"p", "div"} /\ n.cls # {} /\ ExcerptClassRegex(AttrVal(n.cls))

IsParagraph(n) ==
    n.tag = "p"

IsImage(n) ==
    n.tag = "img"

\* get_text(strip=True) of the element find returned; << >> when it returned None
TextOf(d, elem) ==
    IF elem = 0 THEN << >> ELSE GetText(d, elem)

\* title_elem = element.find(['h1', 'h2', 'h3', 'h4', 'a']) and its stripped text
TitleOf(d, e) ==
    TextOf(d, Find({j \in Descendants(d, e) : IsTitleElem(d[j])}))

\* the href read through link_elem: its own when it is a hyperlink, else that of
\* element.find('a', href=True); {} for None
HrefFrom(d, e, link_elem, with_href) ==
    IF d[link_elem].tag = "a" THEN d[link_elem].href
    ELSE IF with_href # 0 THEN d[with_href].href ELSE {}

\* element.find('a') or element
OrElement(a, e) ==
    IF a # 0 THEN a ELSE e

\* link_elem = element.find('a') or element, and the href the url is read from
HrefOf(d, e) ==
    HrefFrom(d, e, OrElement(Find({j \in Descendants(d, e) : IsAnchor(d[j])}), e),
             Find({j \in Descendants(d, e) : IsAnchorWithHref(d[j])}))

\* the title test with the bound off by one
TitleRejectedLoose(title) ==
    title = << >> \/ Len(title) < MinTitleLen - 1

\* `if not title_elem` and `if not title or len(title) < 10`: return None
TitleRejected(title) ==
    title = << >> \/ Len(title) < MinTitleLen

\* desc_elem or the first <p>
OrParagraph(x, para) ==
    IF x # 0 THEN x ELSE para

\* desc_elem.get_text(strip=True) if desc_elem else title
TextOrTitle(d, desc_elem, title) ==
    IF desc_elem # 0 THEN GetText(d, desc_elem) ELSE title

\* description: the excerpt-classed element, else the first <p>, else the title
DescriptionOf(d, e, title) ==
    TextOrTitle(d, OrParagraph(Find({j \in Descendants(d, e) : IsExcerptElem(d[j])}),
                               Find({j \in Descendants(d, e) : IsParagraph(d[j])})),
                title)

\* img_elem.get('src') or img_elem.get('data-src')
SrcOf(d, img_elem) ==
    IF img_elem = 0 THEN {}
    ELSE IF Truthy(d[img_elem].src) THEN d[img_elem].src ELSE d[img_elem].dsrc

\* the image reference of the first <img>; {} when there is none
ImageRefOf(d, e) ==
    SrcOf(d, Find({j \in Descendants(d, e) : IsImage(d[j])}))

\* return None
Rejected ==
    [status |-> "rejected", article |-> << >>]

\* except Exception: print(...); return None
Raised ==
    [status |-> "raised", article |-> << >>]

\* an exception that leaves extract_article_data
Escaped ==
    [status |-> "escaped", article |-> << >>]

\* the dictionary extract_article_data returns
Record(d, e, now, title, url, image_url) ==
    [status  |-> "record",
     article |-> << [title       |-> title,
                     url         |-> url,
                     description |-> DescriptionOf(d, e, title),
                     image_url   |-> image_url,
                     pub_date    |-> now,
                     guid        |-> url] >>]

\* the image reference resolved by urljoin, which may raise (onraise)
WithImage(d, e, now, title, url, image, onraise) ==
    IF image.raised THEN onraise ELSE Record(d, e, now, title, url, {image.val})

\* the url resolved by urljoin, which may raise; then description and image
WithUrl(d, e, now, title, url, img, onraise) ==
    IF url.raised THEN onraise
    ELSE IF Truthy(img)
         THEN WithImage(d, e, now, title, url.val, urljoin(BaseUrl, AttrVal(img)), onraise)
         ELSE Record(d, e, now, title, url.val, {})

\* the body of extract_article_data from the title, the href and the image
\* reference it finds; onraise is what an exception in it leads to
ExtractFrom(d, e, now, title, href, img, onraise) ==
    IF TitleRejected(title) THEN Rejected
    ELSE IF ~Truthy(href) THEN Rejected
    ELSE WithUrl(d, e, now, title, urljoin(BaseUrl, AttrVal(href)), img, onraise)

\* an exception of one candidate propagating out of extract_article_data
extract_article_data_unguarded(d, e, now) ==
    ExtractFrom(d, e, now, TitleOf(d, e), HrefOf(d, e), ImageRefOf(d, e), Escaped)

\* extract_article_data(element): a record, None (rejected), or None after an
\* exception was caught and logged (raised); now is the clock reading it samples
extract_article_data(d, e, now) ==
    ExtractFrom(d, e, now, TitleOf(d, e), HrefOf(d, e), ImageRefOf(d, e), Raised)

\* ---- fetch_articles ----
IsArticleBlock(n) ==
    n.tag \in {"article", "div"} /\ n.cls # {} /\ ArticleClassRegex(AttrVal(n.cls))

IsArticleLink(n) ==
    n.tag = "a" /\ n.href # {} /\ LinkHrefRegex(AttrVal(n.href))

\* soup.find_all(['article', 'div'], class_=re.compile(...))
PrimaryCandidates(d) ==
    FindAll({i \in 1..Len(d) : IsArticleBlock(d[i])})

\* soup.find_all('a', href=re.compile(r'/[^/]+/?$'))
LinkCandidates(d) ==
    FindAll({i \in 1..Len(d) : IsArticleLink(d[i])})

\* discovery that adds the hyperlinks to the class matches instead of falling back
DiscoverBoth(d) ==
    [elements |-> FindAll({i \in 1..Len(d) : IsArticleBlock(d[i]) \/ IsArticleLink(d[i])}),
     fallback |-> TRUE]

\* article_elements: the class matches, or the hyperlinks when there is no class
\* match; fallback tells whether the second find_all ran
Discover(d) ==
    IF PrimaryCandidates(d) = << >>
    THEN [elements |-> LinkCandidates(d), fallback |-> TRUE]
    ELSE [elements |-> PrimaryCandidates(d), fallback |-> FALSE]

\* a loop over every candidate
NoLimit(elems) ==
    elems

\* article_elements[:20]
Limit(elems) ==
    SubSeq(elems, 1, IF Len(elems) < MaxArticles THEN Len(elems) ELSE MaxArticles)

\* one pass of the loop body: r is what extract_article_data(e) gave; acc collects
\* the articles, the candidates they came from (taken), the number of
\* extract_article_data calls, the number of caught exceptions (logged), the clock
\* readings, and whether an exception left the loop (escaped)
LoopStep(acc, r, e) ==
    [articles |-> acc.articles \o r.article,
     taken    |-> IF r.status = "record" THEN Append(acc.taken, e) ELSE acc.taken,
     calls    |-> acc.calls + 1,
     logged   |-> acc.logged + (IF r.status = "raised" THEN 1 ELSE 0),
     clock    |-> acc.clock + (IF r.status = "record" THEN 1 ELSE 0),
     escaped  |-> r.status = "escaped"]

\* the for loop of fetch_articles over elems[k..]
RECURSIVE ExtractLoop(_, _, _, _)
ExtractLoop(d, elems, k, acc) ==
    IF k > Len(elems) \/ acc.escaped THEN acc
    ELSE ExtractLoop(d, elems, k + 1,
            LoopStep(acc, extract_article_data(d, elems[k], acc.clock + 1), elems[k]))

\* response.raise_for_status(): HTTPError for a 4xx or 5xx status
RaiseForStatus(status) ==
    400 <= status /\ status < 600

\* a fetch stage that treats every status as success
FetchRaisesNever(resp) ==
    FALSE

\* session.get raised (connection error, timeout) or raise_for_status did
FetchRaises(resp) ==
    resp.kind # "http" \/ RaiseForStatus(resp.status)

\* except Exception as e: print(...); return []
FetchFailed(clock) ==
    [articles |-> << >>, soup |-> << >>, elements |-> << >>, fallback |-> FALSE,
     taken |-> << >>, calls |-> 0, logged |-> 0, clock |-> clock, failed |-> TRUE]

\* return articles, after the loop went as run; an exception that left the loop
\* ends in the except clause
Returned(d, found, run) ==
    [articles |-> IF run.escaped THEN << >> ELSE run.articles,
     soup     |-> d,
     elements |-> found.elements,
     fallback |-> found.fallback,
     taken    |-> IF run.escaped THEN << >> ELSE run.taken,
     calls    |-> run.calls,
     logged   |-> run.logged,
     clock    |-> run.clock,
     failed   |-> run.escaped]

\* the loop over the first 20 of the candidates found in the parsed document d
ExtractAll(d, found, clock) ==
    Returned(d, found,
             ExtractLoop(d, Limit(found.elements), 1,
                 [articles |-> << >>, taken |-> << >>, calls |-> 0, logged |-> 0,
                  clock |-> clock, escaped |-> FALSE]))

\* fetch_articles(): what it returns (articles) and what it did, given the response
\* of the server and the clock
fetch_articles(resp, clock) ==
    IF FetchRaises(resp) THEN FetchFailed(clock)
    ELSE ExtractAll(resp.body, Discover(resp.body), clock)

\* ---- generate_rss ----
\* strftime('%a, %d %b %Y %H:%M:%S %z') of a clock reading
Rfc822(tstamp) ==
    <<"rfc822", tstamp>>

\* isoformat() of a clock reading
IsoFormat(tstamp) ==
    <<"iso", tstamp>>

\* one <item> of the feed
Item(article) ==
    [title       |-> article.title,
     link        |-> article.url,
     description |-> article.description,
     guid        |-> article.guid,
     isPermaLink |-> TRUE,
     pubDate     |-> Rfc822(article.pub_date),
     thumbnail   |-> article.image_url]

\* a feed built newest-last-first: the items in reverse order
generate_rss_reversed(articles, now) ==
    [lastBuildDate |-> Rfc822(now),
     items         |-> [i \in 1..Len(articles) |-> Item(articles[Len(articles) + 1 - i])]]

\* generate_rss(articles): the channel with one item per article, in order
generate_rss(articles, now) ==
    [lastBuildDate |-> Rfc822(now),
     items         |-> [i \in 1..Len(articles) |-> Item(articles[i])]]

\* save_metadata: the summary object written to metadata.json
Metadata(articles, now) ==
    [last_updated   |-> IsoFormat(now),
     articles_count |-> Len(articles),
     articles       |-> [i \in 1..Len(articles) |->
                            [title    |-> articles[i].title,
                             url      |-> articles[i].url,
                             pub_date |-> IsoFormat(articles[i].pub_date)]]]

\* ---- the pages the server may return ----
\* kinds of element: tag, attributes and own text
DivPost ==
    [tag |-> "div", cls |-> {<<"p", "o", "s", "t", "-", "c", "a", "r", "d">>}, href |-> {}, src |-> {}, dsrc |-> {},
     text |-> << >>]

DivPostUpper ==
    [tag |-> "div", cls |-> {<<"P", "o", "s", "t", "-", "C", "a", "r", "d">>}, href |-> {}, src |-> {}, dsrc |-> {},
     text |-> << >>]

ArticleEntry ==
    [tag |-> "article", cls |-> {<<"h", "e", "r", "o", " ", "e", "n", "t", "r", "y">>}, href |-> {}, src |-> {}, dsrc |-> {},
     text |-> << >>]

H2Long ==
    [tag |-> "h2", cls |-> {}, href |-> {}, src |-> {}, dsrc |-> {},
     text |-> <<" ", "A", " ", "N", "e", "w", " ", "T", "y", "p", "e", "f", "a", "c", "e", " ">>]

H3Nine ==
    [tag |-> "h3", cls |-> {}, href |-> {}, src |-> {}, dsrc |-> {},
     text |-> <<" ", " ", "N", "i", "n", "e", " ", "C", "h", "a", "r", " ", " ">>]

AStory ==
    [tag |-> "a", cls |-> {}, href |-> {<<"/", "s", "t", "o", "r", "y", "/">>}, src |-> {}, dsrc |-> {},
     text |-> <<"T", "e", "n", " ", "L", "e", "t", "t", "e", "r">>]

ANoHref ==
    [tag |-> "a", cls |-> {}, href |-> {}, src |-> {}, dsrc |-> {},
     text |-> <<"A", "n", "c", "h", "o", "r", " ", "W", "i", "t", "h", "o", "u", "t", " ", "H", "r", "e", "f">>]

AEmptyHref ==
    [tag |-> "a", cls |-> {}, href |-> {<< >>}, src |-> {}, dsrc |-> {},
     text |-> <<"A", "n", "c", "h", "o", "r", " ", "E", "m", "p", "t", "y", " ", "H", "r", "e", "f">>]

ABadHref ==
    [tag |-> "a", cls |-> {}, href |-> {<<"/", "/", "[">>}, src |-> {}, dsrc |-> {},
     text |-> <<"B", "a", "d", " ", "B", "r", "a", "c", "k", "e", "t", " ", "H", "r", "e", "f">>]

AAbsolute ==
    [tag |-> "a", cls |-> {}, href |-> {<<"h", "t", "t", "p", "s", ":", "/", "/", "x", ".", "i", "o", "/", "a", "/", "b">>}, src |-> {}, dsrc |-> {},
     text |-> <<"A", "b", "s", "o", "l", "u", "t", "e", " ", "L", "i", "n", "k">>]

PExcerpt ==
    [tag |-> "p", cls |-> {<<"e", "x", "c", "e", "r", "p", "t">>}, href |-> {}, src |-> {}, dsrc |-> {},
     text |-> <<"S", "h", "o", "r", "t", " ", "s", "u", "m", "m", "a", "r", "y">>]

PPlain ==
    [tag |-> "p", cls |-> {}, href |-> {}, src |-> {}, dsrc |-> {},
     text |-> <<"P", "l", "a", "i", "n", " ", "t", "e", "x", "t">>]

ImgSrc ==
    [tag |-> "img", cls |-> {}, href |-> {}, src |-> {<<"/", "i", ".", "j", "p", "g">>}, dsrc |-> {},
     text |-> << >>]

ImgDataSrc ==
    [tag |-> "img", cls |-> {}, href |-> {}, src |-> {}, dsrc |-> {<<"i", ".", "j", "p", "g">>},
     text |-> << >>]

ImgBadSrc ==
    [tag |-> "img", cls |-> {}, href |-> {}, src |-> {<<"/", "/", "]">>}, dsrc |-> {},
     text |-> << >>]

\* the kinds every small page is built from
NodeKinds ==
    {DivPost, DivPostUpper, H2Long, H3Nine, AStory, ANoHref, ABadHref}

\* an element of kind k whose last descendant is at index l
Node(k, l) ==
    [tag |-> k.tag, cls |-> k.cls, href |-> k.href, src |-> k.src, dsrc |-> k.dsrc,
     text |-> k.text, last |-> l]

\* the pre-order shapes of a forest of n elements
Shapes(n) ==
    {l \in [1..n -> 1..n] :
        \A i \in 1..n : /\ l[i] >= i
                        /\ \A j \in (i + 1)..l[i] : l[j] <= l[i]}

\* the page of n elements with kinds ks and shape l
Page(n, ks, l) ==
    [i \in 1..n |-> Node(ks[i], l[i])]

\* a subtree: a root of kind k over the leaves kids
Block(k, kids) ==
    <<Node(k, 1 + Len(kids))>> \o [i \in 1..Len(kids) |-> Node(kids[i], i + 1)]

\* a subtree moved to start after index off
Shift(b, off) ==
    [i \in 1..Len(b) |-> [b[i] EXCEPT !.last = @ + off]]

\* n subtrees in a row: b2 at position j, b1 everywhere else
RECURSIVE Row(_, _, _, _, _)
Row(n, j, b1, b2, acc) ==
    IF n = 0 THEN acc
    ELSE Row(n - 1, j - 1, b1, b2, acc \o Shift(IF j = 1 THEN b2 ELSE b1, Len(acc)))

\* the candidate subtrees long pages are made of
Blocks ==
    { Block(DivPost, <<H2Long, AStory>>),
      Block(DivPost, <<ABadHref>>),
      Block(DivPost, <<H3Nine, AStory>>),
      Block(AStory, <<H2Long>>) }

\* pages of about MaxArticles candidates, one of them unlike the others
LongDocs ==
    UNION {{Row(n, j, b1, b2, << >>) : j \in 1..n, b1 \in Blocks, b2 \in Blocks} :
              n \in (MaxArticles - 1)..MaxRun}

\* pages with the remaining kinds of element, among them a typical listing entry
CuratedDocs ==
    { Block(ArticleEntry, <<H2Long, AStory, PExcerpt, ImgSrc>>),
      Block(ArticleEntry, <<H2Long, AAbsolute, PPlain, ImgDataSrc>>),
      Block(DivPost, <<H2Long, AStory, ImgBadSrc>>) \o Shift(Block(DivPost, <<H2Long, AStory>>), 4),
      Block(DivPost, <<H2Long, AEmptyHref, AStory>>),
      Block(DivPost, <<H2Long, ANoHref, AStory>>),
      Block(DivPost, <<H2Long, AStory>>) \o Shift(Block(DivPost, <<H2Long, AAbsolute>>), 3),
      Block(AAbsolute, <<H2Long>>) \o Shift(Block(AEmptyHref, <<H2Long>>), 2) }

\* what session.get ends with: a response with status and body, or an exception
Statuses ==
    {200, 300, 404, 500}

HttpResponse(status, body) ==
    [kind |-> "http", status |-> status, body |-> body]

FetchError(kind) ==
    [kind |-> kind, status |-> 0, body |-> << >>]

\* ---- the run ----
VARIABLES
    pc,            \* where the run is: start, fetched, generated, rss_saved,
                   \* meta_saved, returned, raised, exited
    response,      \* what session.get ended with
    fetched,       \* what fetch_articles did (soup, elements, calls, ...)
    articles,      \* run's local `articles`
    rss_content,   \* run's local `rss_content`: << >> or <<feed>>
    feed_xml,      \* the file feed.xml
    metadata_json, \* the file metadata.json
    writer_calls,  \* the calls of save_rss and save_metadata so far, in order
    clock,         \* the number of clock readings so far
    success,       \* what run() returned: "unset", "True", "False"
    exit_code      \* the exit status of the process, -1 while it runs

vars ==
    <<pc, response, fetched, articles, rss_content, feed_xml, metadata_json,
      writer_calls, clock, success, exit_code>>

\* a file the run has not touched
OldFile ==
    [state |-> "old", content |-> << >>]

NoResponse ==
    [kind |-> "none", status |-> 0, body |-> << >>]

NotFetched ==
    [articles |-> << >>, soup |-> << >>, elements |-> << >>, fallback |-> FALSE,
     taken |-> << >>, calls |-> 0, logged |-> 0, clock |-> 0, failed |-> FALSE]

\* generator = TheBrandIdentityRSS(); the files of an earlier run are in place
Init ==
    /\ pc = "start"
    /\ response = NoResponse
    /\ fetched = NotFetched
    /\ articles = << >>
    /\ rss_content = << >>
    /\ feed_xml = OldFile
    /\ metadata_json = OldFile
    /\ writer_calls = << >>
    /\ clock = 0
    /\ success = "unset"
    /\ exit_code = -1

\* articles = self.fetch_articles(): r is what fetch_articles did with resp
FetchArticlesDone(resp, r) ==
    /\ fetched' = r
    /\ articles' = r.articles
    /\ clock' = r.clock
    /\ response' = resp
    /\ pc' = "fetched"
    /\ UNCHANGED <<rss_content, feed_xml, metadata_json, writer_calls, success, exit_code>>

\* what session.get ends with decides the call
FetchArticlesWith(resp) ==
    FetchArticlesDone(resp, fetch_articles(resp, clock + 1))

\* run(): prints the start time, then fetches; the server answers with a page of
\* at most MaxNodes elements over NodeKinds, a long page or a curated one
FetchArticles ==
    /\ pc = "start"
    /\ \/ \E status \in Statuses, n \in 0..MaxNodes :
             \E ks \in [1..n -> NodeKinds], l \in Shapes(n) :
                FetchArticlesWith(HttpResponse(status, Page(n, ks, l)))
       \/ \E status \in Statuses, body \in LongDocs \cup CuratedDocs :
             FetchArticlesWith(HttpResponse(status, body))
       \/ \E kind \in {"connection error", "timeout"} :
             FetchArticlesWith(FetchError(kind))

\* a run that goes on to build and write a feed whatever was extracted
NotArticlesNever(arts) ==
    FALSE

\* `not articles`
NotArticles(arts) ==
    arts = << >>

\* if not articles: print(...); return False
RunNoArticles ==
    /\ pc = "fetched"
    /\ NotArticles(articles)
    /\ success' = "False"
    /\ pc' = "returned"
    /\ UNCHANGED <<response, fetched, articles, rss_content, feed_xml, metadata_json,
                   writer_calls, clock, exit_code>>

\* rss_content = self.generate_rss(articles)
GenerateRss ==
    /\ pc = "fetched"
    /\ ~NotArticles(articles)
    /\ rss_content' = <<generate_rss(articles, clock + 1)>>
    /\ clock' = clock + 1
    /\ pc' = "generated"
    /\ UNCHANGED <<response, fetched, articles, feed_xml, metadata_json, writer_calls,
                   success, exit_code>>

\* self.save_rss(rss_content): the declaration and the feed replace feed.xml
SaveRss ==
    /\ pc = "generated"
    /\ feed_xml' = [state |-> "written",
                    content |-> <<[declaration |-> TRUE, rss |-> rss_content[1]]>>]
    /\ writer_calls' = Append(writer_calls, "save_rss")
    /\ pc' = "rss_saved"
    /\ UNCHANGED <<response, fetched, articles, rss_content, metadata_json, clock,
                   success, exit_code>>

\* save_rss raises OSError: open failed (file as before) or the write did (file cut)
SaveRssFails ==
    /\ pc = "generated"
    /\ feed_xml' \in {feed_xml, [state |-> "partial", content |-> << >>]}
    /\ writer_calls' = Append(writer_calls, "save_rss")
    /\ pc' = "raised"
    /\ UNCHANGED <<response, fetched, articles, rss_content, metadata_json, clock,
                   success, exit_code>>

\* self.save_metadata(articles)
SaveMetadata ==
    /\ pc = "rss_saved"
    /\ metadata_json' = [state |-> "written", content |-> <<Metadata(articles, clock + 1)>>]
    /\ clock' = clock + 1
    /\ writer_calls' = Append(writer_calls, "save_metadata")
    /\ pc' = "meta_saved"
    /\ UNCHANGED <<response, fetched, articles, rss_content, feed_xml, success, exit_code>>

\* save_metadata raises OSError
SaveMetadataFails ==
    /\ pc = "rss_saved"
    /\ metadata_json' \in {metadata_json, [state |-> "partial", content |-> << >>]}
    /\ clock' = clock + 1
    /\ writer_calls' = Append(writer_calls, "save_metadata")
    /\ pc' = "raised"
    /\ UNCHANGED <<response, fetched, articles, rss_content, feed_xml, success, exit_code>>

\* print("RSS generation completed successfully!"); return True
RunReturnsTrue ==
    /\ pc = "meta_saved"
    /\ success' = "True"
    /\ pc' = "returned"
    /\ UNCHANGED <<response, fetched, articles, rss_content, feed_xml, metadata_json,
                   writer_calls, clock, exit_code>>

\* a main block that forgets exit(1)
ExitStatusAlwaysZero(returned, uncaught) ==
    0

\* __main__: exit(1) when run() returned False, status 0 at the end of the script
\* otherwise; the interpreter ends with status 1 on an uncaught exception
ExitStatus(returned, uncaught) ==
    IF uncaught THEN 1
    ELSE IF returned = "True" THEN 0 ELSE 1

\* the process ends
Exit ==
    /\ pc \in {"returned", "raised"}
    /\ exit_code' = ExitStatus(success, pc = "raised")
    /\ pc' = "exited"
    /\ UNCHANGED <<response, fetched, articles, rss_content, feed_xml, metadata_json,
                   writer_calls, clock, success>>

Next ==
    \/ FetchArticles
    \/ RunNoArticles
    \/ GenerateRss
    \/ SaveRss
    \/ SaveRssFails
    \/ SaveMetadata
    \/ SaveMetadataFails
    \/ RunReturnsTrue
    \/ Exit

Spec ==
    Init /\ [][Next]_vars

\* ---- properties ----
\* fetch_articles got a response that raise_for_status accepts, and parsed it
Parsed ==
    pc # "start" /\ response.kind = "http" /\ ~RaiseForStatus(response.status)

\* the candidates the loop of fetch_articles visits
Visited ==
    {fetched.elements[i] : i \in {j \in 1..Len(fetched.elements) : j <= MaxArticles}}

Taken ==
    {fetched.taken[k] : k \in 1..Len(fetched.taken)}

\* C1: fetch_articles returns at most 20 records, and they are the records of
\* visited candidates in document order: the k-th record was extracted from the
\* k-th taken candidate, the taken candidates are among the first 20 discovered
\* and their positions in the document increase.
AtMostTwentyInDocumentOrder ==
    pc # "start" =>
        /\ Len(articles) <= MaxArticles
        /\ Len(fetched.taken) = Len(articles)
        /\ Taken \subseteq Visited
        /\ \A k, m \in 1..Len(fetched.taken) : k < m => fetched.taken[k] < fetched.taken[m]
        /\ \A k \in 1..Len(articles) :
              /\ articles[k].title = TitleOf(fetched.soup, fetched.taken[k])
              /\ articles[k].url = urljoin(BaseUrl, AttrVal(HrefOf(fetched.soup, fetched.taken[k]))).val

\* C1 witness: more than 20 candidates were discovered and exactly 20 records returned
TruncatedToTwenty ==
    /\ pc = "fetched"
    /\ Len(fetched.elements) > MaxArticles
    /\ Len(articles) = MaxArticles

NoArticlesNoWriter ==
    (pc # "start" /\ articles = << >>) =>
        /\ writer_calls = << >>
        /\ feed_xml = OldFile
        /\ metadata_json = OldFile
        /\ rss_content = << >>

\* C3 witness: candidates were found, every one was rejected, and the run ended
EndedWithEveryCandidateRejected ==
    /\ pc = "exited"
    /\ fetched.elements # << >>
    /\ fetched.calls > 0
    /\ articles = << >>

\* the fetch stage ended the way the statement calls a failure
HaltedWithoutExtraction ==
    /\ fetched.calls = 0
    /\ fetched.soup = << >>
    /\ articles = << >>
    /\ pc \in {"fetched", "returned", "exited"}
    /\ success # "True"
    /\ writer_calls = << >>

\* C4 as stated: a fetch that ends with any non-2xx status, a network error or a
\* timeout invokes no per-candidate extraction and leaves zero articles.
FailedFetchNon2xxExtractsNothing ==
    (pc # "start" /\ (response.kind # "http" \/ response.status \notin 200..299))
        => HaltedWithoutExtraction

\* C4 amended: a fetch that ends with a 4xx or 5xx status, a network error or a
\* timeout does not propagate: no per-candidate extraction is invoked, the caller
\* sees an empty sequence and the run halts with zero articles.
FailedFetchExtractsNothing ==
    (pc # "start" /\ (response.kind # "http" \/ response.status \in 400..599))
        => HaltedWithoutExtraction

\* C4 witness: a 500 response whose body holds extractable candidates, run ended
ServerErrorWithArticlesInBody ==
    /\ pc = "exited"
    /\ response.kind = "http"
    /\ response.status = 500
    /\ fetch_articles(HttpResponse(200, response.body), 1).articles # << >>
    /\ exit_code = 1

\* C5: the feed generate_rss builds has exactly one item per record, in the order
\* of the records, and the guid and the link of the i-th item are the url of the
\* i-th record.
FeedItemsFollowRecords ==
    rss_content # << >> =>
        /\ Len(rss_content[1].items) = Len(articles)
        /\ \A i \in 1..Len(articles) :
              /\ rss_content[1].items[i].guid = articles[i].url
              /\ rss_content[1].items[i].link = articles[i].url
              /\ rss_content[1].items[i].title = articles[i].title
              /\ rss_content[1].items[i].pubDate = Rfc822(articles[i].pub_date)

\* C5 witness: a feed was built from two records with different urls
FeedOfTwoDifferentRecords ==
    /\ pc = "generated"
    /\ Len(articles) >= 2
    /\ articles[1].url # articles[2].url

\* the candidate or one of its descendants is a hyperlink with a non-empty href
HasHref(d, e) ==
    \E j \in e..d[e].last : d[j].tag = "a" /\ Truthy(d[j].href)

\* C6: no record comes from a candidate without any href or from one whose trimmed
\* title is missing or shorter than 10 characters; every record has a title of at
\* least 10 characters, a non-empty url and guid = url.
RecordsHaveTitleAndUrl ==
    pc # "start" =>
        /\ \A e \in Visited :
              (~HasHref(fetched.soup, e) \/ Len(TitleOf(fetched.soup, e)) < MinTitleLen)
                  => e \notin Taken
        /\ \A k \in 1..Len(articles) :
              /\ Len(articles[k].title) >= MinTitleLen
              /\ articles[k].url # << >>
              /\ articles[k].guid = articles[k].url

\* C6 witness: a candidate with an href and a 9-character title was rejected next
\* to one that gave a record
NineCharacterTitleRejected ==
    /\ pc = "fetched"
    /\ articles # << >>
    /\ \E e \in Visited :
          /\ HasHref(fetched.soup, e)
          /\ Len(TitleOf(fetched.soup, e)) = MinTitleLen - 1
          /\ e \notin Taken

\* every href and image reference under the candidate can be resolved
NothingRaises(d, e) ==
    \A j \in e..d[e].last :
        /\ Truthy(d[j].href) => ~UrlsplitRaises(AttrVal(d[j].href))
        /\ Truthy(d[j].src) => ~UrlsplitRaises(AttrVal(d[j].src))
        /\ Truthy(d[j].dsrc) => ~UrlsplitRaises(AttrVal(d[j].dsrc))

\* C7 as stated: a visited candidate with a valid title that contains a descendant
\* hyperlink with an href yields a record (it is rejected for its url only when no
\* href resolves).
DescendantHrefYieldsRecord ==
    Parsed =>
        \A e \in Visited :
            (/\ Len(TitleOf(fetched.soup, e)) >= MinTitleLen
             /\ \E j \in (e + 1)..fetched.soup[e].last :
                   fetched.soup[j].tag = "a" /\ Truthy(fetched.soup[j].href)
             /\ NothingRaises(fetched.soup, e))
                => e \in Taken

\* the class attribute holds one of the five words in exactly this letter case
HasArticleWord(n) ==
    n.cls # {} /\ \E w \in ArticleWords : Contains(AttrVal(n.cls), w)

\* the class attribute holds one of the five words in some letter case
HasArticleWordAnyCase(n) ==
    n.cls # {} /\ \E w \in ArticleWords : Contains(Lower(AttrVal(n.cls)), w)

\* C8 as stated: every article or div element whose class contains post, article,
\* item, card or entry in any letter case is discovered as a candidate.
AnyCaseClassDiscovered ==
    Parsed =>
        \A i \in 1..Len(fetched.soup) :
            (fetched.soup[i].tag \in {"article", "div"} /\ HasArticleWordAnyCase(fetched.soup[i]))
                => \E k \in 1..Len(fetched.elements) : fetched.elements[k] = i

\* C8 amended: the class match is case-sensitive: every article or div element
\* whose class contains one of the words in lower case is discovered, and an
\* element the class strategy discovers has such a word in lower case in its class
\* (so "Post-Card" alone is not discovered).
LowerCaseClassDiscovered ==
    Parsed =>
        /\ \A i \in 1..Len(fetched.soup) :
              (fetched.soup[i].tag \in {"article", "div"} /\ HasArticleWord(fetched.soup[i]))
                  => \E k \in 1..Len(fetched.elements) : fetched.elements[k] = i
        /\ ~fetched.fallback =>
              \A k \in 1..Len(fetched.elements) :
                  /\ fetched.soup[fetched.elements[k]].tag \in {"article", "div"}
                  /\ HasArticleWord(fetched.soup[fetched.elements[k]])

\* C8 witness: the class strategy found a candidate and skipped a div whose class
\* has the words in another letter case only
UpperCaseClassSkipped ==
    /\ Parsed
    /\ ~fetched.fallback
    /\ fetched.elements # << >>
    /\ \E i \in 1..Len(fetched.soup) :
          /\ fetched.soup[i].tag = "div"
          /\ HasArticleWordAnyCase(fetched.soup[i])
          /\ ~HasArticleWord(fetched.soup[i])
          /\ \A k \in 1..Len(fetched.elements) : fetched.elements[k] # i

\* C9: an exception while extracting one candidate skips that candidate only: every
\* one of the first 20 candidates is still extracted, each exception is logged, and
\* every visited candidate whose own extraction gives a record is in the result,
\* in order.
ExceptionSkipsOneCandidate ==
    Parsed =>
        /\ fetched.calls = Cardinality(Visited)
        /\ fetched.logged =
              Cardinality({e \in Visited : extract_article_data(fetched.soup, e, 0).status = "raised"})
        /\ \A e \in Visited :
              extract_article_data(fetched.soup, e, 0).status = "record" => e \in Taken
        /\ \A k, m \in 1..Len(fetched.taken) : k < m => fetched.taken[k] < fetched.taken[m]
        /\ Len(articles) = Len(fetched.taken)

\* C9 witness: a candidate raised between two candidates that gave records
RaisedBetweenTwoRecords ==
    /\ pc = "fetched"
    /\ fetched.logged >= 1
    /\ \E a, b, c \in Visited :
          /\ a < b /\ b < c
          /\ a \in Taken /\ c \in Taken
          /\ ~NothingRaises(fetched.soup, b)
          /\ b \notin Taken

\* C10: the hyperlink strategy is consulted exactly when the class strategy finds
\* no element; when the class strategy finds elements they are the candidates,
\* also when every one of them is rejected.
FallbackOnlyWhenNoClassMatch ==
    Parsed =>
        /\ fetched.fallback <=> ~\E i \in 1..Len(fetched.soup) : IsArticleBlock(fetched.soup[i])
        /\ (\E i \in 1..Len(fetched.soup) : IsArticleBlock(fetched.soup[i]))
              => \A k \in 1..Len(fetched.elements) : IsArticleBlock(fetched.soup[fetched.elements[k]])
        /\ fetched.fallback
              => \A k \in 1..Len(fetched.elements) : IsArticleLink(fetched.soup[fetched.elements[k]])

\* C10 witness: the class matches were all rejected, the result is empty, and a
\* hyperlink of the page would have given a record
RejectedClassMatchesHideLinks ==
    /\ pc = "fetched"
    /\ Parsed
    /\ ~fetched.fallback
    /\ fetched.elements # << >>
    /\ articles = << >>
    /\ \E i \in 1..Len(fetched.soup) :
          /\ IsArticleLink(fetched.soup[i])
          /\ extract_article_data(fetched.soup, i, 0).status = "record"

====
